---- MODULE Spec2Model ----
(***************************************************************************)
(* Verification model of the bacnet-rs object core:                        *)
(*   - ObjectCallbacks (src/object/callback.rs) and the local / remote     *)
(*     property write paths that drive it,                                 *)
(*   - ObjectName identities, owned String and sync::ArcRw                  *)
(*     (src/object/object_name.rs), and the name-indexed object database,  *)
(*   - the StateText implementations (src/object/state_text.rs and         *)
(*     src/object/state_text/complex.rs).                                  *)
(* Each component has its own specification over the shared variables.     *)
(***************************************************************************)
EXTENDS Integers, Sequences, FiniteSets, TLC

VARIABLES
    callbacks,        \* ObjectCallbacks { present_value, out_of_service }
    present_value,    \* the object's stored PresentValue
    out_of_service,   \* the object's stored OutOfService
    invoked,          \* callback invocations made by the last operation
    previous,         \* per property: the callback passed to the registration before the latest
    latest,           \* per property: the callback passed to the latest registration
    cleared,          \* <<S>> once clear_all removed the callbacks of S, <<>> after a registration
    names,            \* the identity values (Box<dyn ObjectName>) the program holds
    origin,           \* per held identity: the index it was cloned from (0: constructed)
    cells,            \* contents of the Arc<RwLock<String>> allocations
    builder,          \* the objects the DatabaseBuilder has accumulated
    database,         \* the entries of the built object database
    built,            \* DatabaseBuilder::build has run
    renamed,          \* allocations updated after a key over them was inserted
    vec,              \* a plain Vec<String> state text list
    texts,            \* SyncStateText.texts
    overflow_checks,  \* the build traps on integer overflow (debug profile)
    outer_poisoned,   \* the RwLock around the shared SyncStateText is poisoned
    threads,          \* per thread: its call on the shared list and where it stands in it
    outer_lock,       \* holders of the RwLock around the shared SyncStateText
    entry_locks,      \* per entry: holders of its RwLock<String>
    writer_priority,  \* the platform's RwLock makes readers wait behind a waiting writer
    name_threads,     \* per thread: its call on shared identity handles and where it stands in it
    name_locks,       \* per allocation: holders of the RwLock of the ArcRw
    lastOp            \* the last operation, its arguments and its result

vars == <<callbacks, present_value, out_of_service, invoked, previous, latest, cleared,
          names, origin, cells, builder, database, built, renamed,
          vec, texts, overflow_checks, outer_poisoned,
          threads, outer_lock, entry_locks, writer_priority,
          name_threads, name_locks, lastOp>>

cbVars == <<callbacks, present_value, out_of_service, invoked, previous, latest, cleared>>
nameVars == <<names, origin, cells, builder, database, built, renamed>>
textVars == <<vec, texts, overflow_checks, outer_poisoned>>
lockVars == <<threads, outer_lock, entry_locks, writer_priority, name_threads, name_locks>>

\* Option::None for a callback slot; callbacks are numbered from 1
None == 0

(***************************************************************************)
(* Bounds                                                                   *)
(***************************************************************************)
NumCallbacks == 2
MaxReal == 1
MaxNames == 2
MaxCells == 2
NumTexts == 3
HashRange == 2
MaxObjects == 3
MaxLen == 3
MaxSeed == 2
NumStateTexts == 2
MaxStrong == 2
UsizeBits == 16
NumThreads == 2
ThreadLen == 2

(***************************************************************************)
(* Property identifiers and values                                          *)
(***************************************************************************)
PropertyIdentifier == {"PresentValue", "OutOfService", "Units"}

PropertyValue == [kind : {"Real"}, v : 0..MaxReal] \cup [kind : {"Boolean"}, v : 0..1]

CallbackIds == 1..NumCallbacks

(***************************************************************************)
(* ObjectCallbacks                                                          *)
(***************************************************************************)
ObjectCallbacksDefault == [present_value |-> None, out_of_service |-> None]

\* the callback field a property selects, None for unsupported properties
Registered(cbs, property) ==
    CASE property = "PresentValue" -> cbs.present_value
      [] property = "OutOfService" -> cbs.out_of_service
      [] OTHER -> None

\* a has_callback that looks at the field of the other property
has_callbackSwapped(cbs, property) ==
    CASE property = "PresentValue" -> cbs.out_of_service # None
      [] property = "OutOfService" -> cbs.present_value # None
      [] OTHER -> FALSE

\* has_callback: is_some() of the field the property selects
has_callback(cbs, property) ==
    CASE property = "PresentValue" -> cbs.present_value # None
      [] property = "OutOfService" -> cbs.out_of_service # None
      [] OTHER -> FALSE

\* a trigger that calls the callback of the other property
triggerCrossed(cbs, property, value) ==
    CASE property = "PresentValue" ->
            IF cbs.out_of_service # None
            THEN <<[cb |-> cbs.out_of_service, value |-> value]>> ELSE <<>>
      [] property = "OutOfService" ->
            IF cbs.present_value # None
            THEN <<[cb |-> cbs.present_value, value |-> value]>> ELSE <<>>
      [] OTHER -> <<>>

\* the calls trigger makes, in order
trigger(cbs, property, value) ==
    CASE property = "PresentValue" ->
            IF cbs.present_value # None
            THEN <<[cb |-> cbs.present_value, value |-> value]>> ELSE <<>>
      [] property = "OutOfService" ->
            IF cbs.out_of_service # None
            THEN <<[cb |-> cbs.out_of_service, value |-> value]>> ELSE <<>>
      [] OTHER -> <<>>

\* the write is accepted: the property is writable and the value has its type
Accepts(property, value) ==
    \/ property = "PresentValue" /\ value.kind = "Real"
    \/ property = "OutOfService" /\ value.kind = "Boolean"

InitCallbacks ==
    /\ callbacks = ObjectCallbacksDefault
    /\ present_value = 0
    /\ out_of_service = FALSE
    /\ invoked = <<>>
    /\ previous = [p \in {"PresentValue", "OutOfService"} |-> None]
    /\ latest = [p \in {"PresentValue", "OutOfService"} |-> None]
    /\ cleared = <<>>

\* a registration that keeps an already registered callback
RegisterKeepFirst(cbs, field, cb) ==
    IF cbs[field] # None THEN cbs ELSE [cbs EXCEPT ![field] = cb]

Register(cbs, field, cb) == [cbs EXCEPT ![field] = cb]

on_present_value(cb) ==
    /\ callbacks' = Register(callbacks, "present_value", cb)
    /\ previous' = [previous EXCEPT !["PresentValue"] = latest["PresentValue"]]
    /\ latest' = [latest EXCEPT !["PresentValue"] = cb]
    /\ cleared' = <<>>
    /\ invoked' = <<>>
    /\ lastOp' = [op |-> "on_present_value", cb |-> cb]
    /\ UNCHANGED <<present_value, out_of_service>>
    /\ UNCHANGED <<nameVars, textVars, lockVars>>

on_out_of_service(cb) ==
    /\ callbacks' = Register(callbacks, "out_of_service", cb)
    /\ previous' = [previous EXCEPT !["OutOfService"] = latest["OutOfService"]]
    /\ latest' = [latest EXCEPT !["OutOfService"] = cb]
    /\ cleared' = <<>>
    /\ invoked' = <<>>
    /\ lastOp' = [op |-> "on_out_of_service", cb |-> cb]
    /\ UNCHANGED <<present_value, out_of_service>>
    /\ UNCHANGED <<nameVars, textVars, lockVars>>

clear_present_value ==
    /\ callbacks' = [callbacks EXCEPT !.present_value = None]
    /\ previous' = [previous EXCEPT !["PresentValue"] = None]
    /\ latest' = [latest EXCEPT !["PresentValue"] = None]
    /\ invoked' = <<>>
    /\ lastOp' = [op |-> "clear_present_value"]
    /\ UNCHANGED <<present_value, out_of_service, cleared>>
    /\ UNCHANGED <<nameVars, textVars, lockVars>>

clear_out_of_service ==
    /\ callbacks' = [callbacks EXCEPT !.out_of_service = None]
    /\ previous' = [previous EXCEPT !["OutOfService"] = None]
    /\ latest' = [latest EXCEPT !["OutOfService"] = None]
    /\ invoked' = <<>>
    /\ lastOp' = [op |-> "clear_out_of_service"]
    /\ UNCHANGED <<present_value, out_of_service, cleared>>
    /\ UNCHANGED <<nameVars, textVars, lockVars>>

\* a clear_all that forgets the second field
ClearPresentValueOnly(cbs) == [cbs EXCEPT !.present_value = None]

ClearAll(cbs) == [present_value |-> None, out_of_service |-> None]

clear_all ==
    /\ callbacks' = ClearAll(callbacks)
    /\ cleared' = <<{p \in {"PresentValue", "OutOfService"} : has_callback(callbacks, p)}>>
    /\ previous' = [p \in {"PresentValue", "OutOfService"} |-> None]
    /\ latest' = [p \in {"PresentValue", "OutOfService"} |-> None]
    /\ invoked' = <<>>
    /\ lastOp' = [op |-> "clear_all"]
    /\ UNCHANGED <<present_value, out_of_service>>
    /\ UNCHANGED <<nameVars, textVars, lockVars>>

\* the local write path: validates and stores, never notifies
set_property(property, value) ==
    /\ IF Accepts(property, value)
       THEN /\ present_value' = IF property = "PresentValue" THEN value.v ELSE present_value
            /\ out_of_service' = IF property = "OutOfService" THEN value.v = 1 ELSE out_of_service
            /\ lastOp' = [op |-> "set_property", property |-> property,
                          value |-> value, result |-> "Ok"]
       ELSE /\ UNCHANGED <<present_value, out_of_service>>
            /\ lastOp' = [op |-> "set_property", property |-> property,
                          value |-> value, result |-> "Err"]
    /\ invoked' = <<>>
    /\ UNCHANGED <<callbacks, previous, latest, cleared>>
    /\ UNCHANGED <<nameVars, textVars, lockVars>>

\* the remote write path: the local write, then on success the trigger
set_property_remote(property, value) ==
    /\ IF Accepts(property, value)
       THEN /\ present_value' = IF property = "PresentValue" THEN value.v ELSE present_value
            /\ out_of_service' = IF property = "OutOfService" THEN value.v = 1 ELSE out_of_service
            /\ invoked' = trigger(callbacks, property, value)
            /\ lastOp' = [op |-> "set_property_remote", property |-> property,
                          value |-> value, result |-> "Ok"]
       ELSE /\ UNCHANGED <<present_value, out_of_service>>
            /\ invoked' = <<>>
            /\ lastOp' = [op |-> "set_property_remote", property |-> property,
                          value |-> value, result |-> "Err"]
    /\ UNCHANGED <<callbacks, previous, latest, cleared>>
    /\ UNCHANGED <<nameVars, textVars, lockVars>>

\* a clone that copies the registered callbacks
CloneFields(cbs) == cbs

\* <ObjectCallbacks as Clone>::clone: Self::default()
CloneCallbacks(cbs) == ObjectCallbacksDefault

\* callbacks.clone(): the clone is returned, the original is only borrowed
clone_callbacks ==
    /\ lastOp' = [op |-> "clone_callbacks", before |-> callbacks,
                  result |-> CloneCallbacks(callbacks)]
    /\ invoked' = <<>>
    /\ UNCHANGED <<callbacks, present_value, out_of_service, previous, latest, cleared>>
    /\ UNCHANGED <<nameVars, textVars, lockVars>>

\* callbacks.trigger(property, value) called on its own
Trigger(property, value) ==
    /\ invoked' = trigger(callbacks, property, value)
    /\ lastOp' = [op |-> "trigger", property |-> property, value |-> value,
                  before |-> callbacks]
    /\ UNCHANGED <<callbacks, present_value, out_of_service, previous, latest, cleared>>
    /\ UNCHANGED <<nameVars, textVars, lockVars>>

NextCallbacks ==
    \/ \E cb \in CallbackIds : on_present_value(cb)
    \/ \E cb \in CallbackIds : on_out_of_service(cb)
    \/ clear_present_value
    \/ clear_out_of_service
    \/ clear_all
    \/ \E p \in PropertyIdentifier, v \in PropertyValue : set_property(p, v)
    \/ \E p \in PropertyIdentifier, v \in PropertyValue : set_property_remote(p, v)
    \/ clone_callbacks
    \/ \E p \in PropertyIdentifier, v \in PropertyValue : Trigger(p, v)

(***************************************************************************)
(* ObjectName: String (owned) and sync::ArcRw<String> (shared handle)       *)
(***************************************************************************)
Texts == 1..NumTexts

\* the lookup error; instance numbers start at 1
NotFound == 0

\* the text an identity value currently represents
TextOf(cs, v) == IF v.kind = "Owned" THEN v.text ELSE cs[v.ptr]

\* Display: String writes itself, ArcRw writes the value behind its lock
Display(cs, v) == IF v.kind = "Owned" THEN v.text ELSE cs[v.ptr]

\* the hasher's digest of a text, truncated to HashRange values
HashText(t) == (t * 5 + 3) % HashRange

\* a hash of the allocation's address instead of its content
HashByAddress(cs, v) == IF v.kind = "Owned" THEN HashText(v.text) ELSE v.ptr % HashRange

\* Hash: String hashes its text, ArcRw hashes the value behind its lock
Hash(cs, v) == IF v.kind = "Owned" THEN HashText(v.text) ELSE HashText(cs[v.ptr])

\* dyn_eq: equal concrete types, then ArcRw compares the values behind both locks
Eq(cs, a, b) ==
    /\ a.kind = b.kind
    /\ IF a.kind = "Owned" THEN a.text = b.text ELSE cs[a.ptr] = cs[b.ptr]

\* a clone that snapshots the shared value into an owned text
CloneSnapshot(cs, v) == [kind |-> "Owned", text |-> TextOf(cs, v)]

\* Clone: String copies its text, ArcRw clones the Arc (same allocation)
Clone(cs, v) ==
    IF v.kind = "Owned" THEN [kind |-> "Owned", text |-> v.text]
    ELSE [kind |-> "Shared", ptr |-> v.ptr]

\* the names a caller can pass: an owned text or a handle to an allocation
Queries == [kind : {"Owned"}, text : Texts] \cup [kind : {"Shared"}, ptr : 1..MaxCells]

InitNames ==
    /\ names = <<>>
    /\ origin = <<>>
    /\ cells = <<>>
    /\ builder = <<>>
    /\ database = {}
    /\ built = FALSE
    /\ renamed = {}

\* "text".into_object_name()
NewOwned(t) ==
    /\ Len(names) < MaxNames
    /\ names' = Append(names, [kind |-> "Owned", text |-> t])
    /\ origin' = Append(origin, 0)
    /\ lastOp' = [op |-> "new", name |-> Len(names) + 1]
    /\ UNCHANGED <<cells, builder, database, built, renamed>>
    /\ UNCHANGED <<cbVars, textVars, lockVars>>

\* ArcRw::new(text)
ArcRwNew(t) ==
    /\ Len(names) < MaxNames
    /\ Len(cells) < MaxCells
    /\ cells' = Append(cells, t)
    /\ names' = Append(names, [kind |-> "Shared", ptr |-> Len(cells) + 1])
    /\ origin' = Append(origin, 0)
    /\ lastOp' = [op |-> "new", name |-> Len(names) + 1]
    /\ UNCHANGED <<builder, database, built, renamed>>
    /\ UNCHANGED <<cbVars, textVars, lockVars>>

\* name.clone()
CloneName(i) ==
    /\ i <= Len(names)
    /\ Len(names) < MaxNames
    /\ names' = Append(names, Clone(cells, names[i]))
    /\ origin' = Append(origin, i)
    /\ lastOp' = [op |-> "clone", source |-> i, name |-> Len(names) + 1]
    /\ UNCHANGED <<cells, builder, database, built, renamed>>
    /\ UNCHANGED <<cbVars, textVars, lockVars>>

\* the allocations some resident key points at
KeyCells(db) == {e.key.ptr : e \in {d \in db : d.key.kind = "Shared"}}

\* name.update(text): String replaces itself, ArcRw writes behind its lock
update(i, t) ==
    /\ i <= Len(names)
    /\ IF names[i].kind = "Owned"
       THEN /\ names' = [names EXCEPT ![i] = [kind |-> "Owned", text |-> t]]
            /\ UNCHANGED <<cells, renamed>>
       ELSE /\ cells' = [cells EXCEPT ![names[i].ptr] = t]
            /\ renamed' = IF names[i].ptr \in KeyCells(database) /\ cells[names[i].ptr] # t
                          THEN renamed \cup {names[i].ptr} ELSE renamed
            /\ UNCHANGED names
    /\ lastOp' = [op |-> "update", name |-> i, text |-> t, result |-> "Ok"]
    /\ UNCHANGED <<origin, builder, database, built>>
    /\ UNCHANGED <<cbVars, textVars, lockVars>>

\* DatabaseBuilder::with_device(Device::new(instance, name.clone()))
with_device(q) ==
    /\ q.kind = "Shared" => q.ptr <= Len(cells)
    /\ ~built
    /\ Len(builder) < MaxObjects
    /\ builder' = Append(builder, [key |-> Clone(cells, q),
                                   instance |-> Len(builder) + 1])
    /\ lastOp' = [op |-> "with_device", query |-> q]
    /\ UNCHANGED <<names, origin, cells, database, built, renamed>>
    /\ UNCHANGED <<cbVars, textVars, lockVars>>

\* the index build() produces: every accumulated object under its key's hash
Index(cs, objects) ==
    {[key |-> objects[n].key, slot |-> Hash(cs, objects[n].key),
      instance |-> objects[n].instance] : n \in 1..Len(objects)}

\* DatabaseBuilder::build(): fails unless the accumulated names are pairwise distinct
build ==
    /\ ~built
    /\ IF \A m, n \in 1..Len(builder) :
             m # n => ~Eq(cells, builder[m].key, builder[n].key)
       THEN /\ database' = Index(cells, builder)
            /\ built' = TRUE
            /\ lastOp' = [op |-> "build", result |-> "Ok"]
       ELSE /\ UNCHANGED <<database, built>>
            /\ lastOp' = [op |-> "build", result |-> "Err"]
    /\ UNCHANGED <<names, origin, cells, builder, renamed>>
    /\ UNCHANGED <<cbVars, textVars, lockVars>>

\* the entries a hash lookup of q reaches: q's slot, then key equality
Candidates(db, cs, q) == {e \in db : e.slot = Hash(cs, q) /\ Eq(cs, e.key, q)}

\* the results get_object_by_name(q) can give
Lookup(db, cs, q) ==
    IF Candidates(db, cs, q) = {} THEN {NotFound}
    ELSE {e.instance : e \in Candidates(db, cs, q)}

\* database.get_object_by_name(&*name), name a held handle or an owned temporary
get_object_by_name(q) ==
    /\ q.kind = "Shared" => q.ptr <= Len(cells)
    /\ built
    /\ \E r \in Lookup(database, cells, q) :
          lastOp' = [op |-> "get_object_by_name", query |-> q, result |-> r]
    /\ UNCHANGED nameVars
    /\ UNCHANGED <<cbVars, textVars, lockVars>>

NextNames ==
    \/ \E t \in Texts : NewOwned(t)
    \/ \E t \in Texts : ArcRwNew(t)
    \/ \E i \in 1..MaxNames : CloneName(i)
    \/ \E i \in 1..MaxNames, t \in Texts : update(i, t)
    \/ \E q \in Queries : with_device(q)
    \/ build
    \/ \E q \in Queries : get_object_by_name(q)

(***************************************************************************)
(* StateText: Vec<String>, SyncStateText, Arc<RwLock<SyncStateText>>        *)
(***************************************************************************)
StateTexts == 1..NumStateTexts

\* the indices callers pass: inside the list, at its end and past it
Indices == 0..(MaxLen + 2)

\* one element of SyncStateText.texts: the text behind the entry's lock, the
\* strong count of its Arc (1: held by the list only) and whether its lock is
\* poisoned; entries start out with a clean lock
Entries == [text : StateTexts, strong : 1..MaxStrong, poisoned : {FALSE}]

\* Result values; val is 0 where the variant carries no text
Ok(t) == [tag |-> "Ok", val |-> t]
Some(t) == [tag |-> "Some", val |-> t]
NoneText == [tag |-> "None", val |-> 0]
OutOfRange == [tag |-> "OutOfRange", val |-> 0]
Panic == [tag |-> "Panic", val |-> 0]

\* usize subtraction index - 1: traps when overflow checks are on, wraps otherwise
IndexMinusOne(index, checks) ==
    IF index = 0 /\ checks THEN -1 ELSE (index - 1) % (2 ^ UsizeBits)

\* a get_text without the assertion on the error path
VecGetTextPlain(v, index, checks) ==
    IF index < Len(v) THEN Ok(v[index + 1]) ELSE OutOfRange

\* <&Vec<String>>::get_text and <&mut Vec<String>>::get_text
VecGetText(v, index, checks) ==
    IF index < Len(v) THEN Ok(v[index + 1])
    ELSE IF IndexMinusOne(index, checks) = -1 THEN Panic
    ELSE IF IndexMinusOne(index, checks) > Len(v) THEN OutOfRange
    ELSE Panic

\* <&SyncStateText>::get_text and <&mut SyncStateText>::get_text: a poisoned
\* entry lock is mapped to OutOfRange
SyncGetText(ts, index) ==
    IF index < Len(ts)
    THEN IF ts[index + 1].poisoned THEN OutOfRange ELSE Ok(ts[index + 1].text)
    ELSE OutOfRange

\* the sequence without its last element
Front(q) == SubSeq(q, 1, Len(q) - 1)

\* an append that puts the new text in front
VecAppendFront(v, text) == [list |-> <<text>> \o v, result |-> Ok(Len(v) + 1)]

\* <&mut Vec<String>>::append_text: push, then the new length
VecAppend(v, text) == [list |-> Append(v, text), result |-> Ok(Len(v) + 1)]

\* <&mut Vec<String>>::pop_text: Vec::pop
VecPop(v) ==
    IF v = <<>> THEN [list |-> v, result |-> NoneText]
    ELSE [list |-> Front(v), result |-> Some(v[Len(v)])]

\* a set_state that returns the text it has just stored
VecSetStateNew(v, index, text) ==
    IF index < Len(v)
    THEN [list |-> [v EXCEPT ![index + 1] = text], result |-> Some(text)]
    ELSE [list |-> v, result |-> OutOfRange]

\* <&mut Vec<String>>::set_state: get_mut, then mem::replace
VecSetState(v, index, text) ==
    IF index < Len(v)
    THEN [list |-> [v EXCEPT ![index + 1] = text], result |-> Some(v[index + 1])]
    ELSE [list |-> v, result |-> OutOfRange]

\* <&mut SyncStateText>::append_text: push a fresh Arc<RwLock<String>>
SyncAppend(ts, text) ==
    [list |-> Append(ts, [text |-> text, strong |-> 1, poisoned |-> FALSE]),
     result |-> Ok(Len(ts) + 1)]

\* a pop that keeps an entry whose Arc is still shared
SyncPopKeepShared(ts) ==
    IF ts = <<>> THEN [list |-> ts, result |-> NoneText]
    ELSE IF ts[Len(ts)].strong = 1
         THEN [list |-> Front(ts), result |-> Some(ts[Len(ts)].text)]
         ELSE [list |-> ts, result |-> NoneText]

\* <&mut SyncStateText>::pop_text: Vec::pop, then Arc::try_unwrap(..).ok(), then
\* into_inner().unwrap(), which panics on a poisoned entry lock
SyncPop(ts) ==
    IF ts = <<>> THEN [list |-> ts, result |-> NoneText]
    ELSE [list |-> Front(ts),
          result |-> IF ts[Len(ts)].strong # 1 THEN NoneText
                     ELSE IF ts[Len(ts)].poisoned THEN Panic
                     ELSE Some(ts[Len(ts)].text)]

\* <&mut SyncStateText>::set_state: a poisoned entry lock is mapped to OutOfRange
SyncSetState(ts, index, text) ==
    IF index < Len(ts) /\ ~ts[index + 1].poisoned
    THEN [list |-> [ts EXCEPT ![index + 1].text = text],
          result |-> Some(ts[index + 1].text)]
    ELSE [list |-> ts, result |-> OutOfRange]

\* <&Arc<RwLock<SyncStateText>>>::get_text: a poisoned outer lock is mapped to
\* OutOfRange, otherwise the read of the entry under the outer read guard
ArcGetText(poisoned, ts, index) ==
    IF poisoned THEN OutOfRange ELSE SyncGetText(ts, index)

\* <&Arc<RwLock<SyncStateText>>>::number_of_states: unwrap_or(0)
ArcNumberOfStates(poisoned, ts) == IF poisoned THEN 0 ELSE Len(ts)

\* <&Arc<RwLock<SyncStateText>>>::append_text
ArcAppend(poisoned, ts, text) ==
    IF poisoned THEN [list |-> ts, result |-> OutOfRange, poisoned |-> TRUE]
    ELSE [list |-> SyncAppend(ts, text).list, result |-> SyncAppend(ts, text).result,
          poisoned |-> FALSE]

\* <&Arc<RwLock<SyncStateText>>>::pop_text: a panic under the outer write guard
\* poisons the outer lock
ArcPop(poisoned, ts) ==
    IF poisoned THEN [list |-> ts, result |-> OutOfRange, poisoned |-> TRUE]
    ELSE [list |-> SyncPop(ts).list, result |-> SyncPop(ts).result,
          poisoned |-> SyncPop(ts).result = Panic]

\* <&Arc<RwLock<SyncStateText>>>::set_state
ArcSetState(poisoned, ts, index, text) ==
    IF poisoned THEN [list |-> ts, result |-> OutOfRange, poisoned |-> TRUE]
    ELSE [list |-> SyncSetState(ts, index, text).list,
          result |-> SyncSetState(ts, index, text).result, poisoned |-> FALSE]

\* the three implementations: the plain list, the list itself, the list behind
\* its outer lock
Impls == {"Vec", "SyncStateText", "ArcRwLock"}

\* get_text of an implementation on its list
GetText(impl, v, ts, poisoned, index, checks) ==
    CASE impl = "Vec" -> VecGetText(v, index, checks)
      [] impl = "SyncStateText" -> SyncGetText(ts, index)
      [] OTHER -> ArcGetText(poisoned, ts, index)

\* number_of_states of an implementation on its list
NumberOfStates(impl, v, ts, poisoned) ==
    CASE impl = "Vec" -> Len(v)
      [] impl = "SyncStateText" -> Len(ts)
      [] OTHER -> ArcNumberOfStates(poisoned, ts)

\* the call met a poisoned lock: the outer one, or the one of the entry it locks
HitPoison(impl, ts, poisoned, index) ==
    /\ impl # "Vec"
    /\ \/ impl = "ArcRwLock" /\ poisoned
       \/ index < Len(ts) /\ ts[index + 1].poisoned

\* the list is seeded at construction; a caller may keep a clone of an entry's Arc
InitStateText ==
    /\ vec \in UNION {[1..n -> StateTexts] : n \in 0..MaxSeed}
    /\ texts \in UNION {[1..n -> Entries] : n \in 0..MaxSeed}
    /\ overflow_checks \in BOOLEAN
    /\ outer_poisoned = FALSE

get_text(impl, index) ==
    /\ lastOp' = [op |-> "get_text", impl |-> impl, index |-> index,
                  hit |-> HitPoison(impl, texts, outer_poisoned, index),
                  result |-> GetText(impl, vec, texts, outer_poisoned, index,
                                     overflow_checks)]
    /\ UNCHANGED textVars
    /\ UNCHANGED <<cbVars, nameVars, lockVars>>

number_of_states(impl) ==
    /\ lastOp' = [op |-> "number_of_states", impl |-> impl,
                  hit |-> (impl = "ArcRwLock" /\ outer_poisoned),
                  result |-> NumberOfStates(impl, vec, texts, outer_poisoned)]
    /\ UNCHANGED textVars
    /\ UNCHANGED <<cbVars, nameVars, lockVars>>

append_text(impl, text) ==
    /\ CASE impl = "Vec" ->
            /\ Len(vec) < MaxLen
            /\ vec' = VecAppend(vec, text).list
            /\ UNCHANGED texts
            /\ lastOp' = [op |-> "append_text", impl |-> impl, text |-> text,
                          before |-> vec, hit |-> FALSE,
                          result |-> VecAppend(vec, text).result]
         [] impl = "SyncStateText" ->
            /\ Len(texts) < MaxLen
            /\ texts' = SyncAppend(texts, text).list
            /\ UNCHANGED vec
            /\ lastOp' = [op |-> "append_text", impl |-> impl, text |-> text,
                          before |-> texts, hit |-> FALSE,
                          result |-> SyncAppend(texts, text).result]
         [] OTHER ->
            /\ Len(texts) < MaxLen
            /\ texts' = ArcAppend(outer_poisoned, texts, text).list
            /\ UNCHANGED vec
            /\ lastOp' = [op |-> "append_text", impl |-> impl, text |-> text,
                          before |-> texts, hit |-> outer_poisoned,
                          result |-> ArcAppend(outer_poisoned, texts, text).result]
    /\ UNCHANGED <<overflow_checks, outer_poisoned>>
    /\ UNCHANGED <<cbVars, nameVars, lockVars>>

pop_text(impl) ==
    /\ CASE impl = "Vec" ->
            /\ vec' = VecPop(vec).list
            /\ UNCHANGED <<texts, outer_poisoned>>
            /\ lastOp' = [op |-> "pop_text", impl |-> impl, before |-> vec,
                          len |-> Len(vec), strong |-> 1, hit |-> FALSE,
                          result |-> VecPop(vec).result]
         [] impl = "SyncStateText" ->
            /\ texts' = SyncPop(texts).list
            /\ UNCHANGED <<vec, outer_poisoned>>
            /\ lastOp' = [op |-> "pop_text", impl |-> impl, before |-> texts,
                          len |-> Len(texts),
                          strong |-> IF texts = <<>> THEN 0 ELSE texts[Len(texts)].strong,
                          hit |-> (texts # <<>> /\ texts[Len(texts)].strong = 1
                                      /\ texts[Len(texts)].poisoned),
                          result |-> SyncPop(texts).result]
         [] OTHER ->
            /\ texts' = ArcPop(outer_poisoned, texts).list
            /\ outer_poisoned' = ArcPop(outer_poisoned, texts).poisoned
            /\ UNCHANGED vec
            /\ lastOp' = [op |-> "pop_text", impl |-> impl, before |-> texts,
                          len |-> Len(texts),
                          strong |-> IF texts = <<>> THEN 0 ELSE texts[Len(texts)].strong,
                          hit |-> \/ outer_poisoned
                                  \/ (texts # <<>> /\ texts[Len(texts)].strong = 1
                                         /\ texts[Len(texts)].poisoned),
                          result |-> ArcPop(outer_poisoned, texts).result]
    /\ UNCHANGED overflow_checks
    /\ UNCHANGED <<cbVars, nameVars, lockVars>>

set_state(impl, index, text) ==
    /\ CASE impl = "Vec" ->
            /\ vec' = VecSetState(vec, index, text).list
            /\ UNCHANGED texts
            /\ lastOp' = [op |-> "set_state", impl |-> impl, index |-> index,
                          text |-> text, before |-> vec, hit |-> FALSE,
                          result |-> VecSetState(vec, index, text).result]
         [] impl = "SyncStateText" ->
            /\ texts' = SyncSetState(texts, index, text).list
            /\ UNCHANGED vec
            /\ lastOp' = [op |-> "set_state", impl |-> impl, index |-> index,
                          text |-> text, before |-> texts,
                          hit |-> HitPoison(impl, texts, outer_poisoned, index),
                          result |-> SyncSetState(texts, index, text).result]
         [] OTHER ->
            /\ texts' = ArcSetState(outer_poisoned, texts, index, text).list
            /\ UNCHANGED vec
            /\ lastOp' = [op |-> "set_state", impl |-> impl, index |-> index,
                          text |-> text, before |-> texts,
                          hit |-> HitPoison(impl, texts, outer_poisoned, index),
                          result |-> ArcSetState(outer_poisoned, texts, index, text).result]
    /\ UNCHANGED <<overflow_checks, outer_poisoned>>
    /\ UNCHANGED <<cbVars, nameVars, lockVars>>

\* a caller drops its clone of the Arc of entry index
drop_entry_handle(index) ==
    /\ index < Len(texts)
    /\ texts[index + 1].strong > 1
    /\ texts' = [texts EXCEPT ![index + 1].strong = @ - 1]
    /\ lastOp' = [op |-> "drop", index |-> index]
    /\ UNCHANGED <<vec, overflow_checks, outer_poisoned>>
    /\ UNCHANGED <<cbVars, nameVars, lockVars>>

NextStateText ==
    \/ \E impl \in Impls, index \in Indices : get_text(impl, index)
    \/ \E impl \in Impls : number_of_states(impl)
    \/ \E impl \in Impls, text \in StateTexts : append_text(impl, text)
    \/ \E impl \in Impls : pop_text(impl)
    \/ \E impl \in Impls, index \in Indices, text \in StateTexts : set_state(impl, index, text)
    \/ \E index \in Indices : drop_entry_handle(index)

\* a thread that held the write guard of entry index panicked
poison_entry(index) ==
    /\ index < Len(texts)
    /\ ~texts[index + 1].poisoned
    /\ texts' = [texts EXCEPT ![index + 1].poisoned = TRUE]
    /\ lastOp' = [op |-> "poison_entry", index |-> index]
    /\ UNCHANGED <<vec, overflow_checks, outer_poisoned>>
    /\ UNCHANGED <<cbVars, nameVars, lockVars>>

\* a thread that held the outer write guard panicked
poison_outer ==
    /\ ~outer_poisoned
    /\ outer_poisoned' = TRUE
    /\ lastOp' = [op |-> "poison_outer"]
    /\ UNCHANGED <<vec, texts, overflow_checks>>
    /\ UNCHANGED <<cbVars, nameVars, lockVars>>

\* the locked implementations while holders of their guards may panic
NextPoison ==
    \/ \E impl \in Impls \ {"Vec"}, index \in Indices : get_text(impl, index)
    \/ \E impl \in Impls \ {"Vec"} : number_of_states(impl)
    \/ \E impl \in Impls \ {"Vec"}, text \in StateTexts : append_text(impl, text)
    \/ \E impl \in Impls \ {"Vec"} : pop_text(impl)
    \/ \E impl \in Impls \ {"Vec"}, index \in Indices, text \in StateTexts :
          set_state(impl, index, text)
    \/ \E index \in Indices : drop_entry_handle(index)
    \/ \E index \in Indices : poison_entry(index)
    \/ poison_outer

(***************************************************************************)
(* Threads sharing one Arc<RwLock<SyncStateText>>                           *)
(***************************************************************************)
Threads == 1..NumThreads

\* the indices threads pass: those of a full list and one past it
ThreadIndices == 0..ThreadLen

\* an RwLock nobody holds
Free == [readers |-> {}, writer |-> 0]

\* RwLock::read returns once no writer holds the lock; whether a waiting writer
\* holds new readers back is left to the platform
CanRead(lock, waiting) == lock.writer = 0 /\ (writer_priority => waiting = {})

\* RwLock::write returns once nobody holds the lock
CanWrite(lock) == lock.writer = 0 /\ lock.readers = {}

\* the lock with the read guard of thread t
Read(lock, t) == [lock EXCEPT !.readers = @ \cup {t}]

\* the lock with the write guard of thread t
Write(lock, t) == [lock EXCEPT !.writer = t]

\* the lock after thread t dropped its guard
Unlock(lock, t) ==
    [readers |-> lock.readers \ {t},
     writer |-> IF lock.writer = t THEN 0 ELSE lock.writer]

\* the content of a String while a write to it is in progress
Torn == 0

\* no call has returned yet
NoRet == [tag |-> "NoRet", val |-> 0]

\* number_of_states returns a bare count
Count(n) == [tag |-> "Count", val |-> n]

\* a thread between calls
Idle ==
    [pc |-> "idle", op |-> "none", index |-> 0, text |-> 0, ret |-> NoRet,
     window |-> {}]

\* value becomes the content of entry index: every get_text(index) in progress
\* may return it
Observe(ths, index, value) ==
    [u \in Threads |->
        IF ths[u].op = "get_text" /\ ths[u].pc # "idle" /\ ths[u].index = index
        THEN [ths[u] EXCEPT !.window = @ \cup {value}]
        ELSE ths[u]]

\* the threads in a call when thread t returns
Rivals(t) == {u \in Threads \ {t} : threads[u].pc # "idle"}

\* the RwLock of an ArcRw nobody holds; a thread may hold several read guards
FreeCell == [reads |-> [t \in Threads |-> 0], writer |-> 0]

\* a thread between calls on identity handles
IdleName == [pc |-> "idle", op |-> "none", self |-> 0, other |-> 0, text |-> 0]

InitLocks ==
    /\ threads = [t \in Threads |-> Idle]
    /\ outer_lock = Free
    /\ entry_locks = [k \in 1..ThreadLen |-> Free]
    /\ name_threads = [t \in Threads |-> IdleName]
    /\ name_locks = [c \in 1..MaxCells |-> FreeCell]

InitThreads ==
    /\ InitLocks
    /\ writer_priority = FALSE

\* the calls that take the outer write lock
OuterWriters == {"append_text", "pop_text", "set_state"}

\* the threads blocked in self.write()
WaitingOuter == {u \in Threads : threads[u].pc = "outer" /\ threads[u].op \in OuterWriters}

\* the threads blocked in the write() of entry index
WaitingEntry(index) ==
    {u \in Threads : /\ threads[u].pc = "locked"
                     /\ threads[u].op \in {"set_state", "entry_write"}
                     /\ threads[u].index = index}

\* what SpecThreads leaves alone
lockFrame == <<cbVars, nameVars, vec, overflow_checks, outer_poisoned, writer_priority,
              name_threads, name_locks>>

\* a step inside a call
Step == [op |-> "step"]

\* thread t calls op on the shared list
Call(t, op, index, text) ==
    /\ threads' = [threads EXCEPT ![t] =
          [pc |-> "outer", op |-> op, index |-> index, text |-> text, ret |-> NoRet,
           window |-> IF op = "get_text" /\ index < Len(texts)
                      THEN {texts[index + 1].text} ELSE {}]]
    /\ lastOp' = Step
    /\ UNCHANGED <<texts, outer_lock, entry_locks>>
    /\ UNCHANGED lockFrame

\* a return that drops the outer guard and keeps the guard of the entry
ReturnKeepEntry(ths, t, result) ==
    /\ threads' = [ths EXCEPT ![t] = Idle]
    /\ lastOp' = [op |-> "return", call |-> ths[t].op, thread |-> t,
                  index |-> ths[t].index, text |-> ths[t].text, result |-> result,
                  window |-> ths[t].window, rivals |-> Rivals(t)]
    /\ outer_lock' = Unlock(outer_lock, t)
    /\ UNCHANGED entry_locks

\* thread t returns result and drops the guards it holds
Return(ths, t, result) ==
    /\ threads' = [ths EXCEPT ![t] = Idle]
    /\ lastOp' = [op |-> "return", call |-> ths[t].op, thread |-> t,
                  index |-> ths[t].index, text |-> ths[t].text, result |-> result,
                  window |-> ths[t].window, rivals |-> Rivals(t)]
    /\ outer_lock' = Unlock(outer_lock, t)
    /\ entry_locks' = [k \in 1..ThreadLen |-> Unlock(entry_locks[k], t)]

\* thread t stands at pc in a call of op
At(t, op, pc) == threads[t].op = op /\ threads[t].pc = pc

call_get_text(t, index) ==
    /\ threads[t].pc = "idle"
    /\ Call(t, "get_text", index, 0)

\* self.read()
get_text_read_outer(t) ==
    /\ At(t, "get_text", "outer")
    /\ CanRead(outer_lock, WaitingOuter)
    /\ outer_lock' = Read(outer_lock, t)
    /\ threads' = [threads EXCEPT ![t].pc = "locked"]
    /\ lastOp' = Step
    /\ UNCHANGED <<texts, entry_locks>>
    /\ UNCHANGED lockFrame

\* guard.texts.get(index), then arc.read() under the outer read guard
get_text_read_entry(t) ==
    /\ At(t, "get_text", "locked")
    /\ IF threads[t].index < Len(texts)
       THEN /\ CanRead(entry_locks[threads[t].index + 1], WaitingEntry(threads[t].index))
            /\ entry_locks' = [entry_locks EXCEPT ![threads[t].index + 1] = Read(@, t)]
            /\ threads' = [threads EXCEPT ![t].pc = "entry"]
            /\ UNCHANGED outer_lock
            /\ lastOp' = Step
       ELSE Return(threads, t, OutOfRange)
    /\ UNCHANGED texts
    /\ UNCHANGED lockFrame

\* text_guard.clone(), then both guards are dropped
get_text_return(t) ==
    /\ At(t, "get_text", "entry")
    /\ Return(threads, t, Ok(texts[threads[t].index + 1].text))
    /\ UNCHANGED texts
    /\ UNCHANGED lockFrame

call_number_of_states(t) ==
    /\ threads[t].pc = "idle"
    /\ Call(t, "number_of_states", 0, 0)

\* self.read()
number_of_states_read_outer(t) ==
    /\ At(t, "number_of_states", "outer")
    /\ CanRead(outer_lock, WaitingOuter)
    /\ outer_lock' = Read(outer_lock, t)
    /\ threads' = [threads EXCEPT ![t].pc = "locked"]
    /\ lastOp' = Step
    /\ UNCHANGED <<texts, entry_locks>>
    /\ UNCHANGED lockFrame

\* guard.texts.len()
number_of_states_return(t) ==
    /\ At(t, "number_of_states", "locked")
    /\ Return(threads, t, Count(Len(texts)))
    /\ UNCHANGED texts
    /\ UNCHANGED lockFrame

\* the entries the list holds once the appends in progress are through
Pending == Len(texts) + Cardinality({u \in Threads : threads[u].op = "append_text"
                                                      /\ threads[u].pc # "idle"})

call_append_text(t, text) ==
    /\ threads[t].pc = "idle"
    /\ Pending < ThreadLen
    /\ Call(t, "append_text", 0, text)

\* self.write()
append_text_write_outer(t) ==
    /\ At(t, "append_text", "outer")
    /\ CanWrite(outer_lock)
    /\ outer_lock' = Write(outer_lock, t)
    /\ threads' = [threads EXCEPT ![t].pc = "locked"]
    /\ lastOp' = Step
    /\ UNCHANGED <<texts, entry_locks>>
    /\ UNCHANGED lockFrame

\* guard.texts.push(..), guard.texts.len()
append_text_return(t) ==
    /\ At(t, "append_text", "locked")
    /\ texts' = SyncAppend(texts, threads[t].text).list
    /\ Return(Observe(threads, Len(texts), threads[t].text), t,
              SyncAppend(texts, threads[t].text).result)
    /\ UNCHANGED lockFrame

call_pop_text(t) ==
    /\ threads[t].pc = "idle"
    /\ Call(t, "pop_text", 0, 0)

\* self.write()
pop_text_write_outer(t) ==
    /\ At(t, "pop_text", "outer")
    /\ CanWrite(outer_lock)
    /\ outer_lock' = Write(outer_lock, t)
    /\ threads' = [threads EXCEPT ![t].pc = "locked"]
    /\ lastOp' = Step
    /\ UNCHANGED <<texts, entry_locks>>
    /\ UNCHANGED lockFrame

\* guard.texts.pop() and the unwrapping of the entry
pop_text_return(t) ==
    /\ At(t, "pop_text", "locked")
    /\ texts' = SyncPop(texts).list
    /\ Return(threads, t, SyncPop(texts).result)
    /\ UNCHANGED lockFrame

call_set_state(t, index, text) ==
    /\ threads[t].pc = "idle"
    /\ Call(t, "set_state", index, text)

\* self.write()
set_state_write_outer(t) ==
    /\ At(t, "set_state", "outer")
    /\ CanWrite(outer_lock)
    /\ outer_lock' = Write(outer_lock, t)
    /\ threads' = [threads EXCEPT ![t].pc = "locked"]
    /\ lastOp' = Step
    /\ UNCHANGED <<texts, entry_locks>>
    /\ UNCHANGED lockFrame

\* guard.texts.get_mut(index), then arc.write() under the outer write guard
set_state_write_entry(t) ==
    /\ At(t, "set_state", "locked")
    /\ IF threads[t].index < Len(texts)
       THEN /\ CanWrite(entry_locks[threads[t].index + 1])
            /\ entry_locks' = [entry_locks EXCEPT ![threads[t].index + 1] = Write(@, t)]
            /\ threads' = [threads EXCEPT ![t].pc = "entry"]
            /\ UNCHANGED outer_lock
            /\ lastOp' = Step
       ELSE Return(threads, t, OutOfRange)
    /\ UNCHANGED texts
    /\ UNCHANGED lockFrame

\* mem::replace starts: the previous content is taken out
set_state_replace(t) ==
    /\ At(t, "set_state", "entry")
    /\ threads' = [threads EXCEPT ![t].pc = "torn",
                     ![t].ret = SyncSetState(texts, threads[t].index, threads[t].text).result]
    /\ lastOp' = Step
    /\ texts' = [texts EXCEPT ![threads[t].index + 1].text = Torn]
    /\ UNCHANGED <<outer_lock, entry_locks>>
    /\ UNCHANGED lockFrame

\* mem::replace ends: the new content is in place, both guards are dropped
set_state_return(t) ==
    /\ At(t, "set_state", "torn")
    /\ texts' = SyncSetState(texts, threads[t].index, threads[t].text).list
    /\ Return(Observe(threads, threads[t].index, threads[t].text), t, threads[t].ret)
    /\ UNCHANGED lockFrame

\* tests::smoke, the spawned thread: a write to one entry through the lock of
\* the entry, under the outer read guard
call_entry_write(t, index) ==
    /\ threads[t].pc = "idle"
    /\ Call(t, "entry_write", index, 0)

\* moved.read().unwrap()
entry_write_read_outer(t) ==
    /\ At(t, "entry_write", "outer")
    /\ CanRead(outer_lock, WaitingOuter)
    /\ outer_lock' = Read(outer_lock, t)
    /\ threads' = [threads EXCEPT ![t].pc = "locked"]
    /\ lastOp' = Step
    /\ UNCHANGED <<texts, entry_locks>>
    /\ UNCHANGED lockFrame

\* a writer that goes on without the lock of the entry
entry_write_no_lock(t) ==
    /\ At(t, "entry_write", "locked")
    /\ IF threads[t].index < Len(texts)
       THEN /\ threads' = [threads EXCEPT ![t].pc = "entry"]
            /\ UNCHANGED <<outer_lock, entry_locks>>
            /\ lastOp' = Step
       ELSE Return(threads, t, Panic)
    /\ UNCHANGED texts
    /\ UNCHANGED lockFrame

\* guard.texts[i].write().unwrap(): indexing past the end panics
entry_write_write_entry(t) ==
    /\ At(t, "entry_write", "locked")
    /\ IF threads[t].index < Len(texts)
       THEN /\ CanWrite(entry_locks[threads[t].index + 1])
            /\ entry_locks' = [entry_locks EXCEPT ![threads[t].index + 1] = Write(@, t)]
            /\ threads' = [threads EXCEPT ![t].pc = "entry"]
            /\ UNCHANGED outer_lock
            /\ lastOp' = Step
       ELSE Return(threads, t, Panic)
    /\ UNCHANGED texts
    /\ UNCHANGED lockFrame

\* the text with "a" pushed at its end: another text
Extended(text) == (text % NumStateTexts) + 1

\* *guard += "a" starts
entry_write_begin(t) ==
    /\ At(t, "entry_write", "entry")
    /\ threads' = [threads EXCEPT ![t].pc = "torn",
                     ![t].text = Extended(texts[threads[t].index + 1].text)]
    /\ lastOp' = Step
    /\ texts' = [texts EXCEPT ![threads[t].index + 1].text = Torn]
    /\ UNCHANGED <<outer_lock, entry_locks>>
    /\ UNCHANGED lockFrame

\* *guard += "a" ends, both guards are dropped
entry_write_end(t) ==
    /\ At(t, "entry_write", "torn")
    /\ texts' = [texts EXCEPT ![threads[t].index + 1].text = threads[t].text]
    /\ Return(Observe(threads, threads[t].index, threads[t].text), t, Ok(threads[t].text))
    /\ UNCHANGED lockFrame

\* a call in progress takes its next step
Continue(t) ==
    \/ get_text_read_outer(t)
    \/ get_text_read_entry(t)
    \/ get_text_return(t)
    \/ number_of_states_read_outer(t)
    \/ number_of_states_return(t)
    \/ append_text_write_outer(t)
    \/ append_text_return(t)
    \/ pop_text_write_outer(t)
    \/ pop_text_return(t)
    \/ set_state_write_outer(t)
    \/ set_state_write_entry(t)
    \/ set_state_replace(t)
    \/ set_state_return(t)
    \/ entry_write_read_outer(t)
    \/ entry_write_write_entry(t)
    \/ entry_write_begin(t)
    \/ entry_write_end(t)

NextThreads ==
    \/ \E t \in Threads, index \in ThreadIndices : call_get_text(t, index)
    \/ \E t \in Threads : call_number_of_states(t)
    \/ \E t \in Threads, text \in StateTexts : call_append_text(t, text)
    \/ \E t \in Threads : call_pop_text(t)
    \/ \E t \in Threads, index \in ThreadIndices, text \in StateTexts :
          call_set_state(t, index, text)
    \/ \E t \in Threads, index \in ThreadIndices : call_entry_write(t, index)
    \/ \E t \in Threads : get_text_read_outer(t)
    \/ \E t \in Threads : get_text_read_entry(t)
    \/ \E t \in Threads : get_text_return(t)
    \/ \E t \in Threads : number_of_states_read_outer(t)
    \/ \E t \in Threads : number_of_states_return(t)
    \/ \E t \in Threads : append_text_write_outer(t)
    \/ \E t \in Threads : append_text_return(t)
    \/ \E t \in Threads : pop_text_write_outer(t)
    \/ \E t \in Threads : pop_text_return(t)
    \/ \E t \in Threads : set_state_write_outer(t)
    \/ \E t \in Threads : set_state_write_entry(t)
    \/ \E t \in Threads : set_state_replace(t)
    \/ \E t \in Threads : set_state_return(t)
    \/ \E t \in Threads : entry_write_read_outer(t)
    \/ \E t \in Threads : entry_write_write_entry(t)
    \/ \E t \in Threads : entry_write_begin(t)
    \/ \E t \in Threads : entry_write_end(t)

(***************************************************************************)
(* Threads sharing ArcRw handles                                            *)
(***************************************************************************)
\* RwLock::write returns once nobody holds the lock
CanWriteCell(lock) == lock.writer = 0 /\ \A t \in Threads : lock.reads[t] = 0

\* the lock with one more read guard of thread t
ReadCell(lock, t) == [lock EXCEPT !.reads[t] = @ + 1]

\* the lock with the write guard of thread t
WriteCell(lock, t) == [lock EXCEPT !.writer = t]

\* the lock after thread t dropped its guards
UnlockCell(lock, t) ==
    [reads |-> [lock.reads EXCEPT ![t] = 0],
     writer |-> IF lock.writer = t THEN 0 ELSE lock.writer]

\* the threads blocked in self.0.write() of allocation c
WaitingCell(c) ==
    {u \in Threads : name_threads[u].pc = "write" /\ name_threads[u].self = c}

\* what the threads on identity handles leave alone
nameLockFrame == <<cbVars, names, origin, builder, database, built, renamed, textVars,
                   threads, outer_lock, entry_locks, writer_priority>>

\* thread t stands at pc in a call of op on identity handles
AtName(t, op, pc) == name_threads[t].op = op /\ name_threads[t].pc = pc

\* thread t returns result and drops its guards
ReturnName(t, result) ==
    /\ name_threads' = [name_threads EXCEPT ![t] = IdleName]
    /\ name_locks' = [c \in 1..MaxCells |-> UnlockCell(name_locks[c], t)]
    /\ lastOp' = [op |-> "return", call |-> name_threads[t].op, thread |-> t,
                  self |-> name_threads[t].self, other |-> name_threads[t].other,
                  result |-> result]

\* thread t compares a handle to allocation self with a handle to allocation other
call_eq(t, self, other) ==
    /\ name_threads[t].pc = "idle"
    /\ name_threads' = [name_threads EXCEPT ![t] =
          [pc |-> "self", op |-> "eq", self |-> self, other |-> other, text |-> 0]]
    /\ lastOp' = Step
    /\ UNCHANGED <<cells, name_locks>>
    /\ UNCHANGED nameLockFrame

\* self.0.read()
eq_read_self(t) ==
    /\ AtName(t, "eq", "self")
    /\ CanRead(name_locks[name_threads[t].self], WaitingCell(name_threads[t].self))
    /\ name_locks' = [name_locks EXCEPT ![name_threads[t].self] = ReadCell(@, t)]
    /\ name_threads' = [name_threads EXCEPT ![t].pc = "other"]
    /\ lastOp' = Step
    /\ UNCHANGED cells
    /\ UNCHANGED nameLockFrame

\* other.0.read(), with guard_self alive
eq_read_other(t) ==
    /\ AtName(t, "eq", "other")
    /\ CanRead(name_locks[name_threads[t].other], WaitingCell(name_threads[t].other))
    /\ name_locks' = [name_locks EXCEPT ![name_threads[t].other] = ReadCell(@, t)]
    /\ name_threads' = [name_threads EXCEPT ![t].pc = "compare"]
    /\ lastOp' = Step
    /\ UNCHANGED cells
    /\ UNCHANGED nameLockFrame

\* guard_self.dyn_eq(&*guard_other), then both guards are dropped
eq_return(t) ==
    /\ AtName(t, "eq", "compare")
    /\ ReturnName(t, IF Eq(cells, [kind |-> "Shared", ptr |-> name_threads[t].self],
                                  [kind |-> "Shared", ptr |-> name_threads[t].other])
                     THEN 1 ELSE 0)
    /\ UNCHANGED cells
    /\ UNCHANGED nameLockFrame

\* thread t updates a handle to allocation self
call_update(t, self, text) ==
    /\ name_threads[t].pc = "idle"
    /\ name_threads' = [name_threads EXCEPT ![t] =
          [pc |-> "write", op |-> "update", self |-> self, other |-> 0, text |-> text]]
    /\ lastOp' = Step
    /\ UNCHANGED <<cells, name_locks>>
    /\ UNCHANGED nameLockFrame

\* self.0.write()
update_write(t) ==
    /\ AtName(t, "update", "write")
    /\ CanWriteCell(name_locks[name_threads[t].self])
    /\ name_locks' = [name_locks EXCEPT ![name_threads[t].self] = WriteCell(@, t)]
    /\ name_threads' = [name_threads EXCEPT ![t].pc = "store"]
    /\ lastOp' = Step
    /\ UNCHANGED cells
    /\ UNCHANGED nameLockFrame

\* guard.update(value), then the guard is dropped
update_return(t) ==
    /\ AtName(t, "update", "store")
    /\ cells' = [cells EXCEPT ![name_threads[t].self] = name_threads[t].text]
    /\ ReturnName(t, 1)
    /\ UNCHANGED nameLockFrame

\* a call on identity handles takes its next step
ContinueName(t) ==
    \/ eq_read_self(t)
    \/ eq_read_other(t)
    \/ eq_return(t)
    \/ update_write(t)
    \/ update_return(t)

NextNameThreads ==
    \/ \E t \in Threads, self \in 1..MaxCells, other \in 1..MaxCells : call_eq(t, self, other)
    \/ \E t \in Threads, self \in 1..MaxCells, text \in Texts : call_update(t, self, text)
    \/ \E t \in Threads : eq_read_self(t)
    \/ \E t \in Threads : eq_read_other(t)
    \/ \E t \in Threads : eq_return(t)
    \/ \E t \in Threads : update_write(t)
    \/ \E t \in Threads : update_return(t)

InitTexts ==
    /\ vec = <<>>
    /\ texts = <<>>
    /\ overflow_checks = TRUE
    /\ outer_poisoned = FALSE

Init ==
    /\ InitCallbacks
    /\ InitNames
    /\ InitTexts
    /\ InitThreads
    /\ lastOp = [op |-> "init"]

InitText ==
    /\ InitCallbacks
    /\ InitNames
    /\ InitStateText
    /\ InitThreads
    /\ lastOp = [op |-> "init"]

SpecCallbacks == Init /\ [][NextCallbacks]_vars

SpecNames == Init /\ [][NextNames]_vars

SpecStateText == InitText /\ [][NextStateText]_vars

\* the locked lists only: the plain list stays empty
InitPoison ==
    /\ InitText
    /\ vec = <<>>
    /\ overflow_checks

SpecPoison == InitPoison /\ [][NextPoison]_vars

\* the shared list is seeded with entries nobody else holds
InitShared ==
    /\ InitCallbacks
    /\ InitNames
    /\ vec = <<>>
    /\ texts \in UNION {[1..n -> Entries] : n \in 0..ThreadLen}
    /\ \A k \in 1..Len(texts) : texts[k].strong = 1
    /\ overflow_checks = TRUE
    /\ outer_poisoned = FALSE
    /\ InitLocks
    /\ writer_priority \in BOOLEAN
    /\ lastOp = [op |-> "init"]

SpecThreads == InitShared /\ [][NextThreads]_vars

\* every allocation exists and the program holds a handle to each
InitSharedNames ==
    /\ InitCallbacks
    /\ cells \in [1..MaxCells -> Texts]
    /\ names = [c \in 1..MaxCells |-> [kind |-> "Shared", ptr |-> c]]
    /\ origin = [c \in 1..MaxCells |-> 0]
    /\ builder = <<>>
    /\ database = {}
    /\ built = FALSE
    /\ renamed = {}
    /\ InitTexts
    /\ InitLocks
    /\ writer_priority \in BOOLEAN
    /\ lastOp = [op |-> "init"]

SpecNameThreads == InitSharedNames /\ [][NextNameThreads]_vars

(***************************************************************************)
(* Claims about the callback paths (SpecCallbacks)                          *)
(***************************************************************************)
\* the single call a remote write of value to property owes its subscriber
ExpectedCall(property, value) ==
    <<[cb |-> Registered(callbacks, property), value |-> value]>>

\* the value the last accepted write carried is the stored one
Stored ==
    /\ lastOp.property = "PresentValue" => present_value = lastOp.value.v
    /\ lastOp.property = "OutOfService" => out_of_service = (lastOp.value.v = 1)

\* C1 as stated: for every property p and value x, set_local(p, x) invokes no
\* subscriber and set_remote(p, x) invokes the subscriber registered for p
\* exactly once, with x, before it returns.
C1_AsStated ==
    /\ lastOp.op = "set_property" => invoked = <<>>
    /\ (lastOp.op = "set_property_remote" /\ has_callback(callbacks, lastOp.property))
          => invoked = ExpectedCall(lastOp.property, lastOp.value)

\* C1 amended: set_local(p, x) invokes no subscriber; a set_remote(p, x) whose
\* write is accepted invokes the subscriber registered for p exactly once, with
\* x, before it returns; a set_remote(p, x) whose write is rejected invokes none.
C1_RemoteNotifiesOnSuccess ==
    /\ lastOp.op = "set_property" => invoked = <<>>
    /\ (lastOp.op = "set_property_remote" /\ lastOp.result = "Ok"
            /\ has_callback(callbacks, lastOp.property))
          => invoked = ExpectedCall(lastOp.property, lastOp.value)
    /\ (lastOp.op = "set_property_remote" /\ lastOp.result = "Err") => invoked = <<>>

\* an accepted remote write to a property with a subscriber has called it, after
\* which the new value is the stored one
C1_Witness ==
    /\ lastOp.op = "set_property_remote"
    /\ lastOp.result = "Ok"
    /\ has_callback(callbacks, lastOp.property)
    /\ Len(invoked) = 1
    /\ Stored

\* C4: after cb1 and then cb2 were registered on the same property, a remote
\* write to that property calls cb2 only, never cb1: every call it makes is a
\* call of cb2, and an accepted write makes exactly one.
C4_LatestRegistrationFires ==
    \A p \in {"PresentValue", "OutOfService"} :
        (/\ lastOp.op = "set_property_remote"
         /\ lastOp.property = p
         /\ previous[p] # None
         /\ latest[p] # previous[p])
        => /\ \A i \in 1..Len(invoked) : invoked[i].cb = latest[p]
           /\ lastOp.result = "Ok" => invoked = <<[cb |-> latest[p], value |-> lastOp.value]>>

\* a remote write after cb1 was replaced by a different cb2 has called cb2
C4_Witness ==
    \E p \in {"PresentValue", "OutOfService"} :
        /\ lastOp.op = "set_property_remote"
        /\ lastOp.property = p
        /\ previous[p] # None
        /\ latest[p] # previous[p]
        /\ invoked = <<[cb |-> latest[p], value |-> lastOp.value]>>

\* C5: once clear_all has run and until a subscriber is registered again, a
\* remote write to any property calls no subscriber, and an accepted one still
\* stores its value.
C5_ClearedFiresNone ==
    (cleared # <<>> /\ lastOp.op = "set_property_remote")
    => /\ invoked = <<>>
       /\ lastOp.result = "Ok" => Stored

\* clear_all removed the subscribers of both properties and a later accepted
\* remote write stored its value without a call
C5_Witness ==
    /\ cleared = <<{"PresentValue", "OutOfService"}>>
    /\ lastOp.op = "set_property_remote"
    /\ lastOp.result = "Ok"
    /\ lastOp.value.v = 1
    /\ Stored
    /\ invoked = <<>>

\* C18: cloning an ObjectCallbacks collection yields a collection with no
\* callback registered for any property, whatever the original holds, and leaves
\* the registrations of the original unchanged.
C18_CloneIsEmpty ==
    lastOp.op = "clone_callbacks" =>
        /\ \A p \in PropertyIdentifier : ~has_callback(lastOp.result, p)
        /\ callbacks = lastOp.before

\* a collection with both callbacks registered was cloned
C18_Witness ==
    /\ lastOp.op = "clone_callbacks"
    /\ has_callback(callbacks, "PresentValue")
    /\ has_callback(callbacks, "OutOfService")
    /\ ~has_callback(lastOp.result, "PresentValue")
    /\ ~has_callback(lastOp.result, "OutOfService")

\* a step of a registration or a clear of the one property
TouchesOnly(property) ==
    IF property = "PresentValue"
    THEN lastOp'.op \in {"on_present_value", "clear_present_value"}
    ELSE lastOp'.op \in {"on_out_of_service", "clear_out_of_service"}

\* C19: has_callback(p) is true exactly when p is PresentValue or OutOfService
\* and the most recent call affecting p was a registration (false for every
\* other property), and a registration or a clear of one property never changes
\* has_callback of the other.
C19_HasCallbackTracksRegistration ==
    /\ [](\A p \in PropertyIdentifier :
            has_callback(callbacks, p)
                <=> (p \in {"PresentValue", "OutOfService"} /\ latest[p] # None))
    /\ [][/\ TouchesOnly("PresentValue") =>
                has_callback(callbacks', "OutOfService") = has_callback(callbacks, "OutOfService")
          /\ TouchesOnly("OutOfService") =>
                has_callback(callbacks', "PresentValue") = has_callback(callbacks, "PresentValue")]_vars

\* a clear of PresentValue left the OutOfService registration in place
C19_Witness ==
    /\ lastOp.op = "clear_present_value"
    /\ ~has_callback(callbacks, "PresentValue")
    /\ has_callback(callbacks, "OutOfService")
    /\ latest["OutOfService"] # None
    /\ ~has_callback(callbacks, "Units")

\* C20: trigger(p, v) calls at most one callback, the one registered for p, once,
\* with exactly v; it never calls the callback of another property, calls
\* nothing when p has no callback slot or none is registered for p, and leaves
\* the registrations as they were.
C20_TriggerCallsRegisteredOnly ==
    lastOp.op = "trigger" =>
        /\ Len(invoked) <= 1
        /\ invoked = IF lastOp.property = "PresentValue" /\ lastOp.before.present_value # None
                     THEN <<[cb |-> lastOp.before.present_value, value |-> lastOp.value]>>
                     ELSE IF lastOp.property = "OutOfService"
                             /\ lastOp.before.out_of_service # None
                     THEN <<[cb |-> lastOp.before.out_of_service, value |-> lastOp.value]>>
                     ELSE <<>>
        /\ callbacks = lastOp.before

\* with different callbacks on the two properties, a trigger of OutOfService
\* called the OutOfService one
C20_Witness ==
    /\ lastOp.op = "trigger"
    /\ lastOp.property = "OutOfService"
    /\ callbacks.present_value # None
    /\ callbacks.out_of_service # None
    /\ callbacks.present_value # callbacks.out_of_service
    /\ invoked = <<[cb |-> callbacks.out_of_service, value |-> lastOp.value]>>

(***************************************************************************)
(* Claims about identities and the object database (SpecNames)              *)
(***************************************************************************)
\* every identity value that can be formed over the current allocations
Identities ==
    [kind : {"Owned"}, text : Texts] \cup [kind : {"Shared"}, ptr : 1..Len(cells)]

\* the identity a held value was first constructed as, through its clones
RECURSIVE Root(_)
Root(i) == IF origin[i] = 0 THEN i ELSE Root(origin[i])

\* the held values that are clones, directly or not, of the same constructed one
Holders(i) == {j \in 1..Len(names) : Root(j) = Root(i)}

\* no resident key hashes differently from when it was inserted
Fresh == \A e \in database : e.slot = Hash(cells, e.key)

\* resident keys are pairwise distinct
Distinct == \A e1, e2 \in database : e1 # e2 => ~Eq(cells, e1.key, e2.key)

\* C2 as stated: the keys of the registry are frozen snapshots: the hash of a
\* resident key stays the one it was inserted under whatever is updated through
\* a live handle, and the built registry finds every resident object by its key.
C2_KeysFrozen ==
    \A e \in database :
        /\ Hash(cells, e.key) = e.slot
        /\ built => Lookup(database, cells, e.key) = {e.instance}

\* C3 as stated: once a device is registered under a shared handle and the name
\* was updated to a new text through a clone of the handle, a lookup with the
\* handle returns that device, and a lookup with an owned name equal to the new
\* text returns not found.
C3_AsStated ==
    lastOp.op = "get_object_by_name" =>
        LET q == lastOp.query
            over == {e \in database : e.key.kind = "Shared"}
        IN /\ (q.kind = "Shared" /\ q.ptr \in renamed)
                => \E e \in over : e.key.ptr = q.ptr /\ lastOp.result = e.instance
           /\ (/\ q.kind = "Owned"
               /\ \E e \in over : e.key.ptr \in renamed /\ cells[e.key.ptr] = q.text
               /\ \A e \in database \ over : e.key.text # q.text)
                => lastOp.result = NotFound

\* C6: for every identity value v of either representation, clone(v) == v and
\* hash(clone(v)) == hash(v); in particular right after a held value was cloned.
C6_CloneEqual ==
    /\ \A v \in Identities :
          /\ Eq(cells, Clone(cells, v), v)
          /\ Hash(cells, Clone(cells, v)) = Hash(cells, v)
    /\ lastOp.op = "clone" =>
          /\ Eq(cells, names[lastOp.name], names[lastOp.source])
          /\ Hash(cells, names[lastOp.name]) = Hash(cells, names[lastOp.source])

\* a shared handle was cloned: the clone is a
\* second held value over the same allocation, equal to its source
C6_Witness ==
    /\ lastOp.op = "clone"
    /\ lastOp.name # lastOp.source
    /\ names[lastOp.source].kind = "Shared"
    /\ names[lastOp.name].ptr = names[lastOp.source].ptr
    /\ Eq(cells, names[lastOp.name], names[lastOp.source])
    /\ Hash(cells, names[lastOp.name]) = Hash(cells, names[lastOp.source])

\* C7: after update(t) through any holder of a shared identity, every holder
\* (every clone of the same handle) displays t, and all holders are equal to
\* each other with equal hashes.
C7_UpdateVisibleToHolders ==
    (lastOp.op = "update" /\ names[lastOp.name].kind = "Shared") =>
        \A j, k \in Holders(lastOp.name) :
            /\ Display(cells, names[j]) = lastOp.text
            /\ Eq(cells, names[j], names[k])
            /\ Hash(cells, names[j]) = Hash(cells, names[k])

\* an update went through a clone of a shared handle that has two holders
C7_Witness ==
    /\ lastOp.op = "update"
    /\ names[lastOp.name].kind = "Shared"
    /\ origin[lastOp.name] # 0
    /\ Cardinality(Holders(lastOp.name)) = 2
    /\ \A j \in Holders(lastOp.name) : Display(cells, names[j]) = lastOp.text

\* C8: in a registry built from pairwise-distinct identities that were not
\* renamed since, get_object_by_name(q) returns the object inserted under q for
\* every q equal to a resident identity and NotFound for every other identity.
C8_LookupExact ==
    (built /\ Fresh /\ Distinct) =>
        /\ \A q \in Identities :
              Lookup(database, cells, q) =
                  IF \E e \in database : Eq(cells, e.key, q)
                  THEN {e.instance : e \in {d \in database : Eq(cells, d.key, q)}}
                  ELSE {NotFound}
        /\ lastOp.op = "get_object_by_name" =>
              \/ \E e \in database : Eq(cells, e.key, lastOp.query)
                                        /\ lastOp.result = e.instance
              \/ /\ \A e \in database : ~Eq(cells, e.key, lastOp.query)
                 /\ lastOp.result = NotFound

\* a registry of three objects, none renamed, found the object of a held name
C8_Witness ==
    /\ built /\ Fresh /\ Distinct
    /\ Cardinality(database) = 3
    /\ lastOp.op = "get_object_by_name"
    /\ lastOp.result # NotFound
    /\ \E q \in Identities : Lookup(database, cells, q) = {NotFound}

(***************************************************************************)
(* Claims about the state text lists (SpecStateText)                        *)
(***************************************************************************)
\* C9 as stated: for every implementation and every index, get_text(index)
\* returns the content of the entry when index < length and the OutOfRange
\* error value when index >= length, never aborting.
C9_AsStated ==
    lastOp.op = "get_text" =>
        IF lastOp.impl = "Vec"
        THEN lastOp.result = IF lastOp.index < Len(vec) THEN Ok(vec[lastOp.index + 1])
                             ELSE OutOfRange
        ELSE lastOp.result = IF lastOp.index < Len(texts)
                             THEN Ok(texts[lastOp.index + 1].text)
                             ELSE OutOfRange

\* C10 as stated: pop_text on a list whose last entry's content handle is still
\* referenced elsewhere resolves to an explicit error or leaves the list
\* unchanged; it never removes the entry while returning nothing and never
\* terminates the process.
C10_AsStated ==
    (lastOp.op = "pop_text" /\ lastOp.impl # "Vec" /\ lastOp.strong > 1) =>
        /\ lastOp.result.tag \in {"OutOfRange", "StillShared"} \/ Len(texts) = lastOp.len
        /\ ~(Len(texts) < lastOp.len /\ lastOp.result = NoneText)
        /\ lastOp.result # Panic

\* the list of an implementation in the current state
ListOf(impl) == IF impl = "Vec" THEN vec ELSE texts

\* the content of entry index (from 0) of a list of an implementation
ContentOf(impl, list, index) ==
    IF impl = "Vec" THEN list[index + 1] ELSE list[index + 1].text

\* get_text of an implementation on a given list
GetTextOn(impl, list, index) ==
    GetText(impl, list, list, outer_poisoned, index, overflow_checks)

\* C15: append_text(t) on a list of length n returns n + 1; afterwards
\* number_of_states is n + 1, get_text(n) is t and get_text(i) is what it was
\* for every i < n.
C15_AppendExtends ==
    lastOp.op = "append_text" =>
        LET n == Len(lastOp.before)
            now == ListOf(lastOp.impl)
        IN /\ lastOp.result = Ok(n + 1)
           /\ NumberOfStates(lastOp.impl, vec, texts, outer_poisoned) = n + 1
           /\ GetTextOn(lastOp.impl, now, n) = Ok(lastOp.text)
           /\ \A i \in 0..(n - 1) :
                 GetTextOn(lastOp.impl, now, i) = GetTextOn(lastOp.impl, lastOp.before, i)

\* an append to a list behind its outer lock that already holds two entries, the
\* first of them different from the appended text
C15_Witness ==
    /\ lastOp.op = "append_text"
    /\ lastOp.impl = "ArcRwLock"
    /\ Len(lastOp.before) = 2
    /\ lastOp.before[1].text # lastOp.text
    /\ Len(texts) = 3

\* C16: set_state(i, t) with i < length returns the previous content of entry
\* i; afterwards get_text(i) is t, the length and every other entry are
\* unchanged. With i >= length it returns OutOfRange and the list is unchanged.
C16_SetStateReplaces ==
    lastOp.op = "set_state" =>
        LET n == Len(lastOp.before)
            now == ListOf(lastOp.impl)
            i == lastOp.index
        IN IF i < n
           THEN /\ lastOp.result = Some(ContentOf(lastOp.impl, lastOp.before, i))
                /\ GetTextOn(lastOp.impl, now, i) = Ok(lastOp.text)
                /\ Len(now) = n
                /\ \A j \in (0..(n - 1)) \ {i} : now[j + 1] = lastOp.before[j + 1]
           ELSE /\ lastOp.result = OutOfRange
                /\ now = lastOp.before

\* a set_state that replaced the first of two entries by a different text
C16_Witness ==
    /\ lastOp.op = "set_state"
    /\ lastOp.impl = "SyncStateText"
    /\ lastOp.index = 0
    /\ Len(lastOp.before) = 2
    /\ lastOp.before[1].text # lastOp.text
    /\ texts[1].text = lastOp.text

\* C17 as stated: pop_text on a non-empty list removes the last entry and
\* returns its content, leaving the entries before it unchanged; on an empty
\* list it returns None.
C17_AsStated ==
    lastOp.op = "pop_text" =>
        LET n == Len(lastOp.before)
        IN IF n = 0
           THEN lastOp.result = NoneText /\ ListOf(lastOp.impl) = lastOp.before
           ELSE /\ lastOp.result = Some(ContentOf(lastOp.impl, lastOp.before, n - 1))
                /\ ListOf(lastOp.impl) = Front(lastOp.before)

(***************************************************************************)
(* Claims about poisoned locks (SpecPoison)                                *)
(***************************************************************************)
\* C14 as stated: an operation of the list that meets a poisoned lock (the
\* outer one or an entry's) proceeds and reports a degraded-mode indicator that
\* is neither a normal success nor OutOfRange, and it never aborts.
C14_AsStated ==
    (lastOp.op \in {"get_text", "append_text", "pop_text", "set_state"} /\ lastOp.hit) =>
        lastOp.result.tag \notin {"Ok", "Some", "None", "OutOfRange", "Panic"}

(***************************************************************************)
(* Claims about threads on one shared list (SpecThreads)                   *)
(***************************************************************************)
\* C11 as stated: get_text on the shared list never holds the outer lock while
\* it reads an entry under the lock of the entry.
C11_AsStated ==
    \A t \in Threads :
        At(t, "get_text", "entry") => t \notin outer_lock.readers

\* C12: threads calling get_text while another thread calls set_state on a
\* different index never deadlock (while a call is in progress some call can
\* take its next step), and every get_text that returns a content returns one
\* the entry held at some time during the call, never a partly written one.
C12_ReadersAndWriterComplete ==
    /\ (\E t \in Threads : threads[t].pc # "idle") => ENABLED (\E t \in Threads : Continue(t))
    /\ (lastOp.op = "return" /\ lastOp.call = "get_text" /\ lastOp.result.tag = "Ok") =>
          /\ lastOp.result.val \in lastOp.window
          /\ lastOp.result.val # Torn

\* a get_text of an existing entry returned while a set_state of another
\* existing entry was in progress
C12_Witness ==
    /\ lastOp.op = "return"
    /\ lastOp.call = "get_text"
    /\ lastOp.result.tag = "Ok"
    /\ \E u \in lastOp.rivals :
          /\ threads[u].op = "set_state"
          /\ threads[u].index # lastOp.index
          /\ threads[u].index < Len(texts)

\* the calls that touch the content of one entry
ContentOps == {"get_text", "set_state"}

\* C13 as stated: a content operation on entry i (set_state, get_text) is not
\* blocked by content operations in progress on other entries, nor by a
\* structural read; only structural mutations serialize.
C13_AsStated ==
    \A t \in Threads :
        (/\ threads[t].pc = "outer"
         /\ threads[t].op \in ContentOps
         /\ \A u \in Threads \ {t} :
               \/ threads[u].pc = "idle"
               \/ threads[u].op = "number_of_states"
               \/ threads[u].op \in ContentOps /\ threads[u].index # threads[t].index)
        => ENABLED Continue(t)

\* thread t holds a guard of the lock
Holds(lock, t) == t \in lock.readers \/ lock.writer = t

\* the entries whose lock thread t holds
HeldEntries(t) == {k \in 1..ThreadLen : Holds(entry_locks[k], t)}

\* C21: every operation of the shared list takes the outer lock before any
\* entry lock (a thread that holds an entry lock holds the outer lock, a
\* thread that waits for the outer lock holds nothing), holds at most one
\* entry lock at a time, and the threads running these operations never
\* deadlock.
C21_OuterBeforeEntry ==
    /\ \A t \in Threads :
          /\ HeldEntries(t) # {} => Holds(outer_lock, t)
          /\ Cardinality(HeldEntries(t)) <= 1
          /\ threads[t].pc \in {"idle", "outer"} =>
                HeldEntries(t) = {} /\ ~Holds(outer_lock, t)
    /\ (\E t \in Threads : threads[t].pc # "idle") => ENABLED (\E t \in Threads : Continue(t))

\* a set_state holds the outer write guard and the write guard of an entry
\* while another thread waits for the outer lock
C21_Witness ==
    \E t \in Threads, u \in Threads :
        /\ t # u
        /\ At(t, "set_state", "torn")
        /\ Holds(outer_lock, t)
        /\ HeldEntries(t) = {threads[t].index + 1}
        /\ threads[u].pc = "outer"

(***************************************************************************)
(* Claims about threads on shared identity handles (SpecNameThreads)       *)
(***************************************************************************)
\* C22 as stated: a comparison of two shared handles that runs concurrently
\* with updates from other threads always completes, also when both handles
\* are clones of one value and when two threads compare the same pair in
\* opposite orders: while a call is in progress, some call can take its next
\* step.
C22_AsStated ==
    (\E t \in Threads : name_threads[t].pc # "idle") =>
        ENABLED (\E t \in Threads : ContinueName(t))

====
